---- MODULE Spec2Model ----
(***************************************************************************)
(* Model of the A-Frame camera system (src/systems/camera.js): the manager *)
(* that tracks the active camera entity, injects a default camera when the *)
(* scene has none, and offsets that default camera on enter-vr / exit-vr.  *)
(*                                                                         *)
(* The scene is a flat list of entities in document order.  An entity is a *)
(* record of the attributes the system reads or writes.  Events emitted on *)
(* the scene are counted, and the latest is kept together with what a      *)
(* synchronous listener would observe at the moment of emission.           *)
(***************************************************************************)
EXTENDS Integers, Sequences, FiniteSets

VARIABLES activeCameraEl, sceneCamera, ents, children, listeners, events,
          timerPending, inVR, switches, lastCall

vars == <<activeCameraEl, sceneCamera, ents, children, listeners, events,
          timerPending, inVR, switches, lastCall>>

\* What the system itself reads and writes (everything but the call record).
progState == <<activeCameraEl, sceneCamera, ents, children, listeners, events,
               timerPending, inVR, switches>>

(***************************************************************************)
(* Bounds                                                                  *)
(***************************************************************************)
\* Number of author-supplied entities in the scene.
NumAuthor == 2
\* Bound on the number of events emitted (camera-ready + camera-set-active).
MaxEvents == 4
\* Bound on |net number of direct offset calls| applied to the default camera.
MaxOffsets == 2

(***************************************************************************)
(* Values                                                                  *)
(***************************************************************************)
\* JavaScript null, as an entity reference or an object handle: entity ids
\* are positive and camera object handles negative.
Null == 0
\* JavaScript undefined, as an event handler.
Undefined == "undefined"

\* IEEE-754 double arithmetic on the y coordinate.  Every y value the system
\* can produce is (n * M + ulps) * 2^-52 where M = 0x1CCCCCCCCCCCCD is the
\* significand of the double nearest to 1.8; it is kept as the pair
\* [n, ulps].  MLow is M mod 32, enough to round at every exponent the
\* bounded model reaches.
MLow == 13

Dbl(n, u) == [n |-> n, ulps |-> u]

Abs(i) == IF i < 0 THEN -i ELSE i

\* Number of low bits of n*M+ulps that do not fit the 53-bit significand:
\* floor(log2(1.8 * |n|)) for 1 <= |n| <= 17 (|ulps| stays far below M).
DroppedBits(a) ==
  IF a <= 1 THEN 0 ELSE IF a = 2 THEN 1 ELSE IF a <= 4 THEN 2
  ELSE IF a <= 8 THEN 3 ELSE 4

Pow2(s) == IF s = 0 THEN 1 ELSE IF s = 1 THEN 2 ELSE IF s = 2 THEN 4
           ELSE IF s = 3 THEN 8 ELSE 16

\* fl(v + sg * 1.8), round-to-nearest, ties-to-even, for sg in {1, -1}.
DblAddY(v, sg) ==
  LET n2 == v.n + sg
      a  == Abs(n2)
      m  == IF n2 > 0 THEN v.ulps ELSE -v.ulps
      q  == Pow2(DroppedBits(a))
      low == (a * MLow + m) % (2 * q)
      r  == low % q
      odd == low \div q
      d  == IF 2 * r < q \/ (2 * r = q /\ odd = 0) THEN -r ELSE q - r
  IN  IF n2 = 0 THEN Dbl(0, v.ulps)
      ELSE Dbl(n2, IF n2 > 0 THEN m + d ELSE -(m + d))

\* DEFAULT_CAMERA_POSITION = {x: 0, y: 1.8, z: 4}.  x and z are small
\* integers, exact in double arithmetic; y is the double nearest 1.8.
DEFAULT_CAMERA_POSITION_X == 0
DEFAULT_CAMERA_POSITION_Z == 4
DEFAULT_CAMERA_POSITION == [x |-> DEFAULT_CAMERA_POSITION_X, y |-> Dbl(1, 0),
                            z |-> DEFAULT_CAMERA_POSITION_Z]

\* Position of an entity that never had a position set: (0, 0, 0).
Origin == [x |-> 0, y |-> Dbl(0, 0), z |-> 0]

\* The handle of the camera object (THREE.Camera) realized for entity e.
CameraObject(e) == 0 - e

\* Slip: the camera object itself is passed instead of its entity.
El_Mut(c) == c

\* camera.el: the entity owning a camera object.
El(c) == 0 - c

AuthorIds == 1 .. NumAuthor

\* An author entity: without a camera component, with a camera component
\* whose camera object is not realized yet (camera.active still at its
\* declared value, true), or with a realized camera, active or not.
AuthorEntity(id) ==
  { [marker |-> FALSE, camera |-> FALSE, object3D |-> Null, active |-> FALSE,
     playing |-> TRUE, position |-> Origin],
    [marker |-> FALSE, camera |-> TRUE, object3D |-> Null, active |-> TRUE,
     playing |-> TRUE, position |-> Origin] }
  \cup
  { [marker |-> FALSE, camera |-> TRUE, object3D |-> CameraObject(id),
     active |-> a, playing |-> TRUE, position |-> Origin] : a \in BOOLEAN }

(***************************************************************************)
(* DOM queries                                                             *)
(***************************************************************************)
\* The ids of a sequence, as a set.
Range(s) == { s[i] : i \in 1 .. Len(s) }

\* sceneEl.querySelectorAll('[camera]'): document order.
QueryAllCamera(ch, es) == SelectSeq(ch, LAMBDA e : es[e].camera)

\* sceneEl.querySelector('[data-aframe-default-camera]'): first match or null.
QueryDefault(ch, es) ==
  LET m == SelectSeq(ch, LAMBDA e : es[e].marker)
  IN  IF Len(m) = 0 THEN Null ELSE m[1]

\* Child entities of an entity: the scene is flat, the default camera entity
\* is created without children.
ChildrenOf(e) == << >>

\* el.querySelector('[camera]'): searches the descendants of el, not el.
QueryCameraBelow(e, es) ==
  LET m == SelectSeq(ChildrenOf(e), LAMBDA c : es[c].camera)
  IN  IF Len(m) = 0 THEN Null ELSE m[1]

\* el.getObject3D('camera').
getObject3D(e, es) == es[e].object3D

\* Camera-bearing entities of the scene whose camera.active is true.
ActiveEls(ch, es) == { e \in Range(ch) : es[e].camera /\ es[e].active }

\* What a listener of a scene event observes when it is called.
Seen(act, cam, ch, es) ==
  [activeCameraEl |-> act, camera |-> cam, activeEls |-> ActiveEls(ch, es)]

\* No event emitted yet.
NoEvent == [name |-> "none", cameraEl |-> Null, seen |-> Seen(Null, Null, << >>, << >>)]

\* sceneEl.emit(name, {cameraEl: el}): the emissions are counted per event
\* name and the latest one is kept with its detail.
Emit(log, name, el, act, cam, ch, es) ==
  [count |-> [log.count EXCEPT ![name] = @ + 1],
   last |-> [name |-> name, cameraEl |-> el, seen |-> Seen(act, cam, ch, es)]]

\* Number of events emitted so far.
Emitted(log) == log.count["camera-ready"] + log.count["camera-set-active"]

Call(op, target, passed, threw) ==
  [op |-> op, target |-> target, passed |-> passed, threw |-> threw]

(***************************************************************************)
(* init: activeCameraEl = null; setupDefaultCamera schedules the check.    *)
(***************************************************************************)
Init ==
  /\ activeCameraEl = Null
  /\ sceneCamera = Null
  /\ ents \in { f \in [AuthorIds -> UNION { AuthorEntity(i) : i \in AuthorIds }] :
                  \A i \in AuthorIds : f[i] \in AuthorEntity(i) }
  /\ children = [i \in AuthorIds |-> i]
  /\ listeners = {}
  /\ events = [count |-> [n \in {"camera-ready", "camera-set-active"} |-> 0],
               last |-> NoEvent]
  /\ timerPending = TRUE
  /\ inVR = FALSE
  /\ switches = 0
  /\ lastCall = Call("init", Null, FALSE, FALSE)

(***************************************************************************)
(* setupDefaultCamera / checkForCamera: the setTimeout callback.           *)
(***************************************************************************)
\* Slip: the position attribute is not set on the new entity.
NewDefaultCamera_Mut(id) ==
  [marker |-> TRUE, camera |-> TRUE, object3D |-> CameraObject(id),
   active |-> TRUE, playing |-> TRUE, position |-> Origin]

\* The entity built by lines 41-46.
NewDefaultCamera(id) ==
  [marker |-> TRUE, camera |-> TRUE, object3D |-> CameraObject(id),
   active |-> TRUE, playing |-> TRUE, position |-> DEFAULT_CAMERA_POSITION]

\* Slip: a repeating timer (setInterval) instead of a one-shot one.
TimerAfterFire_Mut == TRUE

\* The timer is a one-shot setTimeout: it is spent when the callback runs.
TimerAfterFire == FALSE

\* Slip: the `return' of line 39 is missing.
ReturnsWhenCameraFound_Mut == FALSE

\* Whether the `if (currentCamera)' branch returns before the creation code.
ReturnsWhenCameraFound == TRUE

checkForCamera ==
  /\ timerPending
  /\ timerPending' = TimerAfterFire
  /\ Emitted(events) < MaxEvents
  /\ LET currentCamera == sceneCamera
         id == Len(ents) + 1
         found == currentCamera # Null
         ev1 == IF found
                THEN Emit(events, "camera-ready", El(currentCamera),
                          activeCameraEl, sceneCamera, children, ents)
                ELSE events
         create == ~found \/ ~ReturnsWhenCameraFound
         es2 == IF create
                THEN [e \in DOMAIN ents \cup {id} |->
                        IF e = id THEN NewDefaultCamera(id) ELSE ents[e]]
                ELSE ents
         ch2 == IF create THEN Append(children, id) ELSE children
         ls2 == IF create
                THEN listeners \cup
                       { [type |-> "enter-vr", handler |-> "removeDefaultOffset"],
                         [type |-> "exit-vr", handler |-> "addDefaultOffset"] }
                ELSE listeners
         ev2 == IF create
                THEN Emit(ev1, "camera-ready", id, activeCameraEl, sceneCamera,
                          ch2, es2)
                ELSE ev1
     IN  /\ ents' = es2
         /\ children' = ch2
         /\ listeners' = ls2
         /\ events' = ev2
  /\ lastCall' = Call("checkForCamera", Null, FALSE, FALSE)
  /\ UNCHANGED <<activeCameraEl, sceneCamera, inVR, switches>>

(***************************************************************************)
(* addDefaultOffset / removeDefaultOffset                                  *)
(***************************************************************************)
\* Slip: z is always added, also by removeDefaultOffset.
OffsetPosition_Mut(p, sg) ==
  [x |-> p.x + sg * DEFAULT_CAMERA_POSITION_X,
   y |-> DblAddY(p.y, sg),
   z |-> p.z + DEFAULT_CAMERA_POSITION_Z]

\* Componentwise position +/- DEFAULT_CAMERA_POSITION (sg = 1 or -1).
OffsetPosition(p, sg) ==
  [x |-> p.x + sg * DEFAULT_CAMERA_POSITION_X,
   y |-> DblAddY(p.y, sg),
   z |-> p.z + sg * DEFAULT_CAMERA_POSITION_Z]

\* Slip: the entity is looked up by '[camera]' instead of the marker.
ApplyOffset_Mut(ch, es, sg) ==
  LET m == QueryAllCamera(ch, es)
  IN  IF Len(m) = 0 THEN es
      ELSE [es EXCEPT ![m[1]].position = OffsetPosition(@, sg)]

\* Entities after addDefaultOffset (sg = 1) or removeDefaultOffset (sg = -1).
ApplyOffset(ch, es, sg) ==
  LET defaultCamera == QueryDefault(ch, es)
  IN  IF defaultCamera = Null THEN es
      ELSE [es EXCEPT ![defaultCamera].position = OffsetPosition(@, sg)]

addDefaultOffsetEnts(ch, es) == ApplyOffset(ch, es, 1)

\* Slip: removeDefaultOffset adds the offset.
removeDefaultOffsetEnts_Mut(ch, es) == ApplyOffset(ch, es, 1)

removeDefaultOffsetEnts(ch, es) == ApplyOffset(ch, es, -1)

\* Net count of offsets applied to the default camera stays within the bound.
OffsetInBound(sg) ==
  LET d == QueryDefault(children, ents)
  IN  IF d = Null THEN TRUE
      ELSE Abs(ents[d].position.y.n + sg) <= MaxOffsets

addDefaultOffset ==
  /\ OffsetInBound(1)
  /\ ents' = addDefaultOffsetEnts(children, ents)
  /\ lastCall' = Call("addDefaultOffset", Null, FALSE, FALSE)
  /\ UNCHANGED <<activeCameraEl, sceneCamera, children, listeners, events,
                 timerPending, inVR, switches>>

removeDefaultOffset ==
  /\ OffsetInBound(-1)
  /\ ents' = removeDefaultOffsetEnts(children, ents)
  /\ lastCall' = Call("removeDefaultOffset", Null, FALSE, FALSE)
  /\ UNCHANGED <<activeCameraEl, sceneCamera, children, listeners, events,
                 timerPending, inVR, switches>>

\* Slip: the handlers run on the opposite event.
Dispatch_Mut(type, ch, es) ==
  LET other == IF type = "enter-vr" THEN "exit-vr" ELSE "enter-vr"
      es1 == IF [type |-> other, handler |-> "removeDefaultOffset"] \in listeners
             THEN ApplyOffset(ch, es, -1) ELSE es
  IN  IF [type |-> other, handler |-> "addDefaultOffset"] \in listeners
      THEN ApplyOffset(ch, es1, 1) ELSE es1

\* Dispatch of a scene event to the handlers registered for it.
Dispatch(type, ch, es) ==
  LET es1 == IF [type |-> type, handler |-> "removeDefaultOffset"] \in listeners
             THEN removeDefaultOffsetEnts(ch, es) ELSE es
  IN  IF [type |-> type, handler |-> "addDefaultOffset"] \in listeners
      THEN addDefaultOffsetEnts(ch, es1) ELSE es1

\* The scene enters immersive mode and emits enter-vr.
EnterVR ==
  /\ ~inVR
  /\ inVR' = TRUE
  /\ ents' = Dispatch("enter-vr", children, ents)
  /\ lastCall' = Call("enter-vr", Null, FALSE, FALSE)
  /\ UNCHANGED <<activeCameraEl, sceneCamera, children, listeners, events,
                 timerPending, switches>>

\* The scene leaves immersive mode and emits exit-vr.
ExitVR ==
  /\ inVR
  /\ inVR' = FALSE
  /\ ents' = Dispatch("exit-vr", children, ents)
  /\ lastCall' = Call("exit-vr", Null, FALSE, FALSE)
  /\ UNCHANGED <<activeCameraEl, sceneCamera, children, listeners, events,
                 timerPending, switches>>

(***************************************************************************)
(* disableActiveCamera                                                     *)
(***************************************************************************)
\* Slip: the first camera of the query is chosen instead of the last.
disableActiveCamera_First ==
  LET cameraEls == QueryAllCamera(children, ents)
      empty == Len(cameraEls) = 0
  IN  /\ ents' = IF empty THEN ents
                 ELSE [ents EXCEPT ![cameraEls[1]].active = TRUE]
      /\ lastCall' = Call("disableActiveCamera", Null, FALSE, empty)
      /\ UNCHANGED <<activeCameraEl, sceneCamera, children, listeners, events,
                     timerPending, inVR, switches>>

\* Variant: an empty query result is guarded and the call returns quietly.
disableActiveCamera_Guarded ==
  LET cameraEls == QueryAllCamera(children, ents)
      empty == Len(cameraEls) = 0
  IN  /\ ents' = IF empty THEN ents
                 ELSE [ents EXCEPT ![cameraEls[Len(cameraEls)]].active = TRUE]
      /\ lastCall' = Call("disableActiveCamera", Null, FALSE, FALSE)
      /\ UNCHANGED <<activeCameraEl, sceneCamera, children, listeners, events,
                     timerPending, inVR, switches>>

\* cameraEls[cameraEls.length - 1].setAttribute('camera', 'active', true).
\* On an empty query result the index yields undefined and the property
\* access throws a TypeError before anything is written.
disableActiveCamera ==
  LET cameraEls == QueryAllCamera(children, ents)
      empty == Len(cameraEls) = 0
  IN  /\ ents' = IF empty THEN ents
                 ELSE [ents EXCEPT ![cameraEls[Len(cameraEls)]].active = TRUE]
      /\ lastCall' = Call("disableActiveCamera", Null, FALSE, empty)
      /\ UNCHANGED <<activeCameraEl, sceneCamera, children, listeners, events,
                     timerPending, inVR, switches>>

(***************************************************************************)
(* removeDefaultCamera(sceneEl): a plain function, not a method.           *)
(***************************************************************************)
\* `this.removeDefaultOffset' / `this.addDefaultOffset' inside the plain
\* function: `this' is not the system, so both properties are undefined.
ThisRemoveDefaultOffset == Undefined
ThisAddDefaultOffset == Undefined

\* The scene's children after removeDefaultCamera, given the camera slot.
removeDefaultCameraChildren(cam, ch, es) ==
  LET defaultCamera == QueryDefault(ch, es)
  IN  IF cam = Null THEN ch
      ELSE IF defaultCamera = Null THEN ch
      ELSE SelectSeq(ch, LAMBDA e : e # defaultCamera)

\* The scene's listeners after removeDefaultCamera.
removeDefaultCameraListeners(cam, ch, es, ls) ==
  IF cam = Null \/ QueryDefault(ch, es) = Null THEN ls
  ELSE ls \ { [type |-> "enter-vr", handler |-> ThisRemoveDefaultOffset],
              [type |-> "exit-vr", handler |-> ThisAddDefaultOffset] }

(***************************************************************************)
(* setActiveCamera(newCameraEl)                                            *)
(***************************************************************************)
\* Slip: the check for a realized camera object is missing.
GuardPasses_NoRealized(newCameraEl, act, es) ==
  ~(newCameraEl = act)

\* Slip: the check for the already active target is missing.
GuardPasses_Mut(newCameraEl, act, es) ==
  ~(getObject3D(newCameraEl, es) = Null)

\* Line 110: the call goes on only with a realized camera on a new target.
GuardPasses(newCameraEl, act, es) ==
  ~(getObject3D(newCameraEl, es) = Null \/ newCameraEl = act)

\* Slip: the previous active camera is left to the loop over the query.
DisablePrevious_Mut(previousCamera, es) == es

\* Lines 123-126: the previous active camera is marked inactive.
DisablePrevious(previousCamera, es) ==
  IF previousCamera # Null
  THEN [es EXCEPT ![previousCamera].active = FALSE]
  ELSE es

\* Slip: the other cameras are paused but not marked inactive.
DisableOthers_Mut(cameraEls, newCameraEl, es) ==
  [e \in DOMAIN es |->
     IF e \in Range(cameraEls) /\ e # newCameraEl
     THEN [es[e] EXCEPT !.playing = FALSE]
     ELSE es[e]]

\* Lines 128-133: every queried camera entity but the target is marked
\* inactive and paused.
DisableOthers(cameraEls, newCameraEl, es) ==
  [e \in DOMAIN es |->
     IF e \in Range(cameraEls) /\ e # newCameraEl
     THEN [es[e] EXCEPT !.active = FALSE, !.playing = FALSE]
     ELSE es[e]]

\* Slip: the scene's camera slot is left as it was.
PublishCamera_Mut(newCamera, cam) == cam

\* Line 121: sceneEl.camera = newCamera.
PublishCamera(newCamera, cam) == newCamera

\* Slip: camera-set-active is emitted before the other cameras are disabled.
EmitsAfterDisabling_Mut == FALSE

\* Whether camera-set-active is emitted after the loop over cameraEls.
EmitsAfterDisabling == TRUE

setActiveCamera(newCameraEl) ==
  LET cameraEls == QueryAllCamera(children, ents)
      newCamera == getObject3D(newCameraEl, ents)
      previousCamera == activeCameraEl
      passes == GuardPasses(newCameraEl, activeCameraEl, ents)
      defaultCameraWrapper == QueryDefault(children, ents)
      defaultCameraEl == IF defaultCameraWrapper = Null THEN Null
                         ELSE QueryCameraBelow(defaultCameraWrapper, ents)
      remove == newCameraEl # defaultCameraEl
      ch1 == IF remove
             THEN removeDefaultCameraChildren(sceneCamera, children, ents)
             ELSE children
      ls1 == IF remove
             THEN removeDefaultCameraListeners(sceneCamera, children, ents,
                                               listeners)
             ELSE listeners
      cam1 == PublishCamera(newCamera, sceneCamera)
      es1 == [ents EXCEPT ![newCameraEl].playing = TRUE]
      es2 == DisablePrevious(previousCamera, es1)
      es3 == DisableOthers(cameraEls, newCameraEl, es2)
  IN  /\ Emitted(events) < MaxEvents
      /\ lastCall' = Call("setActiveCamera", newCameraEl, passes, FALSE)
      /\ IF ~passes
         THEN UNCHANGED progState
         ELSE /\ activeCameraEl' = newCameraEl
              /\ sceneCamera' = cam1
              /\ children' = ch1
              /\ listeners' = ls1
              /\ ents' = es3
              /\ events' = Emit(events, "camera-set-active", newCameraEl,
                                newCameraEl, cam1, ch1,
                                IF EmitsAfterDisabling THEN es3 ELSE es1)
              /\ switches' = switches + 1
              /\ UNCHANGED <<timerPending, inVR>>

\* The camera component and application code call setActiveCamera with an
\* entity of the scene.
SetActiveCamera == \E t \in Range(children) : setActiveCamera(t)

(***************************************************************************)
(* Specification                                                           *)
(***************************************************************************)
Next ==
  \/ checkForCamera
  \/ SetActiveCamera
  \/ disableActiveCamera
  \/ addDefaultOffset
  \/ removeDefaultOffset
  \/ EnterVR
  \/ ExitVR

Spec == Init /\ [][Next]_vars

(***************************************************************************)
(* Properties                                                              *)
(***************************************************************************)
\* Entities of the scene carrying the default-camera marker.
DefaultEls(ch, es) == { e \in Range(ch) : es[e].marker }

\* Camera-bearing entities of the scene.
CameraEls(ch, es) == { e \in Range(ch) : es[e].camera }

\* The last operation was a setActiveCamera call that passed its guard.
Switched == lastCall.op = "setActiveCamera" /\ lastCall.passed

\* C1 (as stated): after every guard-passing setActiveCamera call exactly one
\* camera-bearing entity of the scene has camera.active = true, the target.
C1_ExactlyTargetActive ==
  Switched => ActiveEls(children, ents) = {lastCall.target}

\* C1 (amended): after every guard-passing setActiveCamera call
\* activeCameraEl is the target, no camera-bearing entity of the scene other
\* than the target has camera.active = true, and the call has not written
\* the target's own camera.active flag.
C1_OnlyTargetMayBeActive ==
  [][(lastCall'.op = "setActiveCamera" /\ lastCall'.passed)
       => /\ activeCameraEl' = lastCall'.target
          /\ ActiveEls(children', ents') \subseteq {lastCall'.target}
          /\ ents'[lastCall'.target].active = ents[lastCall'.target].active]_vars

\* C1 witness: a switch to a target that stays active while another camera
\* entity of the scene, active before, is now inactive.
C1_Witness ==
  /\ Switched
  /\ ActiveEls(children, ents) = {lastCall.target}
  /\ \E e \in CameraEls(children, ents) :
       e # lastCall.target /\ ~ents[e].playing /\ ~ents[e].active

\* C2: after a guard-passing setActiveCamera call activeCameraEl is the
\* target and sceneEl.camera is the target's camera object; whenever
\* activeCameraEl is set, sceneEl.camera is the camera object of that entity.
C2_SlotIsActiveCamera ==
  /\ Switched
       => /\ activeCameraEl = lastCall.target
          /\ sceneCamera = getObject3D(lastCall.target, ents)
  /\ activeCameraEl # Null
       => sceneCamera # Null /\ sceneCamera = getObject3D(activeCameraEl, ents)

\* C2 witness: a second switch, from one active camera to another.
C2_Witness ==
  /\ Switched
  /\ events.count["camera-set-active"] >= 2
  /\ sceneCamera = CameraObject(lastCall.target)

\* C3: a setActiveCamera call whose target has no realized camera, or is
\* already activeCameraEl, changes nothing: activeCameraEl, sceneEl.camera,
\* the entities' flags and play state, the scene's children, the listeners
\* and the emitted events all stay as they were.
C3_GuardFailIsNoOp ==
  [][(/\ lastCall'.op = "setActiveCamera"
      /\ \/ getObject3D(lastCall'.target, ents) = Null
         \/ lastCall'.target = activeCameraEl)
       => UNCHANGED <<activeCameraEl, sceneCamera, ents, children, listeners,
                      events, switches>>]_vars

\* C3 witness: a repeated call with the camera that is already active.
C3_Witness ==
  /\ lastCall.op = "setActiveCamera"
  /\ ~lastCall.passed
  /\ lastCall.target = activeCameraEl
  /\ events.count["camera-set-active"] >= 1

\* C4 (as stated): a guard-passing setActiveCamera call with a target other
\* than the default camera, made while a default camera is in the scene,
\* leaves no default camera in the scene.
C4_OtherCameraRemovesDefault ==
  [][(/\ lastCall'.op = "setActiveCamera"
      /\ lastCall'.passed
      /\ DefaultEls(children, ents) # {}
      /\ lastCall'.target \notin DefaultEls(children, ents))
       => DefaultEls(children', ents') = {}]_vars

\* Some entity was given the default-camera marker and is out of the scene.
DefaultRemoved ==
  \E e \in DOMAIN ents : ents[e].marker /\ e \notin Range(children)

\* C5: at most one entity ever carries the default-camera marker, and once
\* the default camera has left the scene no step brings one into the scene.
C5_DefaultNeverRecreated ==
  [][/\ Cardinality({ e \in DOMAIN ents' : ents'[e].marker }) <= 1
     /\ DefaultRemoved => DefaultEls(children', ents') = {}]_vars

\* C5 witness: the default camera was removed and a later switch was made.
C5_Witness ==
  /\ DefaultRemoved
  /\ Switched
  /\ activeCameraEl \in Range(children)
  /\ ents[activeCameraEl].marker = FALSE
  /\ events.count["camera-set-active"] >= 3

\* C6: camera-ready has been emitted zero times while the deferred check is
\* pending and exactly once ever after.
C6_ReadyExactlyOnce ==
  events.count["camera-ready"] = IF timerPending THEN 0 ELSE 1

\* C6 witness: the check ran, found a camera, and later operations followed.
C6_Witness ==
  /\ ~timerPending
  /\ DefaultEls(children, ents) = {}
  /\ ~DefaultRemoved
  /\ events.count["camera-set-active"] >= 2
  /\ lastCall.op = "disableActiveCamera"

\* C7: when the deferred check has run with the camera slot empty, exactly
\* one entity of the scene carries the default-camera marker; it has a
\* camera with active = true, sits at (0, 1.8, 4), and is the cameraEl of
\* the camera-ready event just emitted.
C7_DefaultCameraCreated ==
  (lastCall.op = "checkForCamera" /\ sceneCamera = Null)
    => /\ Cardinality(DefaultEls(children, ents)) = 1
       /\ \A d \in DefaultEls(children, ents) :
            /\ ents[d].camera /\ ents[d].active
            /\ ents[d].position = [x |-> 0, y |-> Dbl(1, 0), z |-> 4]
            /\ events.last.name = "camera-ready"
            /\ events.last.cameraEl = d

\* C7 witness: the check created the default camera next to author entities
\* that carry unrealized or inactive cameras.
C7_Witness ==
  /\ lastCall.op = "checkForCamera"
  /\ sceneCamera = Null
  /\ DefaultEls(children, ents) # {}
  /\ \E e \in Range(children) : ents[e].camera /\ ~ents[e].marker

\* C8: when the deferred check runs with a camera already in the slot, it
\* leaves the entities, the scene's children and the listeners as they were
\* and emits camera-ready with the entity owning that camera, which is
\* activeCameraEl.
C8_ExistingCameraFound ==
  [][(lastCall'.op = "checkForCamera" /\ sceneCamera # Null)
       => /\ UNCHANGED <<ents, children, listeners, sceneCamera, activeCameraEl>>
          /\ DefaultEls(children', ents') = {}
          /\ events'.last.name = "camera-ready"
          /\ events'.last.cameraEl = activeCameraEl
          /\ getObject3D(events'.last.cameraEl, ents) = sceneCamera]_vars

\* C8 witness: the check ran after two author cameras were activated in turn.
C8_Witness ==
  /\ lastCall.op = "checkForCamera"
  /\ sceneCamera # Null
  /\ events.count["camera-set-active"] >= 2
  /\ events.last.cameraEl = activeCameraEl

\* The default camera of the scene is at position p.
DefaultAt(p) ==
  \E d \in DefaultEls(children, ents) : ents[d].position = p

\* The step applies addDefaultOffset (sg = 1) or removeDefaultOffset
\* (sg = -1), directly or through the exit-vr / enter-vr listeners.
OffsetStep(sg) ==
  IF sg = 1
  THEN lastCall'.op \in {"addDefaultOffset", "exit-vr"}
  ELSE lastCall'.op \in {"removeDefaultOffset", "enter-vr"}

\* C9 (as stated): any sequence with equally many adds and removes leaves
\* the default camera's position unchanged.  The y coordinate is
\* (n * M + ulps) * 2^-52 where n - 1 is the number of adds minus the number
\* of removes, so: whenever n = 1 the position is the spawn position.
C9_BalancedSequenceRestores ==
  \A d \in DefaultEls(children, ents) :
    ents[d].position.y.n = 1 => ents[d].position = DEFAULT_CAMERA_POSITION

\* C9 (amended): from the spawn position a remove puts the default camera at
\* exactly (0, 0, 0) and the add that follows puts it back at exactly the
\* spawn position (and likewise add then remove is exact from (0, 0, 0));
\* every add or remove moves x and z by exactly the spawn vector's x and z,
\* so those two components are restored exactly by any add/remove pair.
C9_SpawnRoundTrip ==
  [][\A d \in DefaultEls(children, ents) : \A sg \in {1, -1} :
       OffsetStep(sg)
         => /\ ents'[d].position.x = ents[d].position.x + sg * 0
            /\ ents'[d].position.z = ents[d].position.z + sg * 4
            /\ (sg = -1 /\ ents[d].position = [x |-> 0, y |-> Dbl(1, 0), z |-> 4])
                 => ents'[d].position = [x |-> 0, y |-> Dbl(0, 0), z |-> 0]
            /\ (sg = 1 /\ ents[d].position = [x |-> 0, y |-> Dbl(0, 0), z |-> 0])
                 => ents'[d].position = [x |-> 0, y |-> Dbl(1, 0), z |-> 4]
            /\ (sg = 1 /\ ents[d].position = [x |-> 0, y |-> Dbl(1, 0), z |-> 4])
                 => ents'[d].position = [x |-> 0, y |-> Dbl(2, 0), z |-> 8]
            /\ (sg = -1 /\ ents[d].position = [x |-> 0, y |-> Dbl(2, 0), z |-> 8])
                 => ents'[d].position = [x |-> 0, y |-> Dbl(1, 0), z |-> 4]]_vars

\* C9 witness: the default camera is back at the spawn position after an
\* exit-vr that undid the offset removed on enter-vr.
C9_Witness ==
  /\ lastCall.op = "exit-vr"
  /\ DefaultAt([x |-> 0, y |-> Dbl(1, 0), z |-> 4])

\* C10: camera-set-active has been emitted as many times as setActiveCamera
\* calls passed the guard; each such call emits it exactly once, with the
\* target as cameraEl, at a point where activeCameraEl and sceneEl.camera
\* are the target's and no other camera of the scene is active; no other
\* step emits it.
C10_SetActiveEmittedPerSwitch ==
  [][/\ events'.count["camera-set-active"] = switches'
     /\ (lastCall'.op = "setActiveCamera" /\ lastCall'.passed)
          => /\ events'.count["camera-set-active"] =
                  events.count["camera-set-active"] + 1
             /\ events'.last.name = "camera-set-active"
             /\ events'.last.cameraEl = lastCall'.target
             /\ events'.last.seen.activeCameraEl = lastCall'.target
             /\ events'.last.seen.camera = getObject3D(lastCall'.target, ents)
             /\ events'.last.seen.activeEls \subseteq {lastCall'.target}
     /\ ~(lastCall'.op = "setActiveCamera" /\ lastCall'.passed)
          => events'.count["camera-set-active"] =
               events.count["camera-set-active"]]_vars

\* C10 witness: the third switch, announced with its target as the only
\* active camera of the scene.
C10_Witness ==
  /\ Switched
  /\ events.count["camera-set-active"] = 3
  /\ events.last.cameraEl = lastCall.target
  /\ events.last.seen.activeEls = {lastCall.target}

\* The step is a setActiveCamera call that passed its guard.
SwitchStep == lastCall'.op = "setActiveCamera" /\ lastCall'.passed

\* C11 (as stated): a guard-passing setActiveCamera call whose target is the
\* entity carrying the default-camera marker leaves that entity in the scene.
C11_DefaultTargetStays ==
  [][(SwitchStep /\ lastCall'.target \in DefaultEls(children, ents))
       => lastCall'.target \in Range(children')]_vars

\* The scene has a handler registered for enter-vr or exit-vr.
HasVRListener(ls) ==
  \E l \in ls : l.type \in {"enter-vr", "exit-vr"}

\* C12 (as stated): when a setActiveCamera call takes the default camera out
\* of the scene, no enter-vr or exit-vr handler stays registered.
C12_RemovalUnregistersListeners ==
  [][(/\ SwitchStep
      /\ DefaultEls(children, ents) # {}
      /\ DefaultEls(children', ents') = {})
       => ~HasVRListener(listeners')]_vars

\* C13: while the default camera is in the scene, enter-vr subtracts the
\* spawn vector from its position componentwise and exit-vr adds it; from
\* the spawn position enter-vr puts it at (0, 0, 0) and the matching exit-vr
\* puts it back at (0, 1.8, 4).
C13_EnterSubtractsExitAdds ==
  [][\A d \in DefaultEls(children, ents) :
       /\ lastCall'.op = "enter-vr"
            => /\ ents'[d].position =
                    [x |-> ents[d].position.x - DEFAULT_CAMERA_POSITION_X,
                     y |-> DblAddY(ents[d].position.y, -1),
                     z |-> ents[d].position.z - DEFAULT_CAMERA_POSITION_Z]
               /\ ents[d].position = DEFAULT_CAMERA_POSITION
                    => ents'[d].position = Origin
       /\ lastCall'.op = "exit-vr"
            => /\ ents'[d].position =
                    [x |-> ents[d].position.x + DEFAULT_CAMERA_POSITION_X,
                     y |-> DblAddY(ents[d].position.y, 1),
                     z |-> ents[d].position.z + DEFAULT_CAMERA_POSITION_Z]
               /\ ents[d].position = Origin
                    => ents'[d].position = DEFAULT_CAMERA_POSITION]_vars

\* C13 witness: the default camera sits at (0, 0, 0) right after enter-vr.
C13_Witness ==
  /\ lastCall.op = "enter-vr"
  /\ inVR
  /\ DefaultAt([x |-> 0, y |-> Dbl(0, 0), z |-> 0])

\* C14 (as stated): enter-vr increases the default camera's position by the
\* spawn vector and exit-vr decreases it by the same vector.
C14_EnterAddsExitSubtracts ==
  [][\A d \in DefaultEls(children, ents) :
       /\ lastCall'.op = "enter-vr"
            => /\ ents'[d].position.z = ents[d].position.z + 4
               /\ ents'[d].position.y.n = ents[d].position.y.n + 1
       /\ lastCall'.op = "exit-vr"
            => /\ ents'[d].position.z = ents[d].position.z - 4
               /\ ents'[d].position.y.n = ents[d].position.y.n - 1]_vars

\* C14 (amended): the offset is subtractive on entering VR and additive on
\* exiting: enter-vr lowers the default camera's z by 4 and its y by one
\* 1.8 step, exit-vr raises them by the same amounts, and x stays as it is.
C14_EnterLowersExitRaises ==
  [][\A d \in DefaultEls(children, ents) :
       /\ lastCall'.op = "enter-vr"
            => /\ ents'[d].position.z = ents[d].position.z - 4
               /\ ents'[d].position.y.n = ents[d].position.y.n - 1
               /\ ents'[d].position.x = ents[d].position.x
       /\ lastCall'.op = "exit-vr"
            => /\ ents'[d].position.z = ents[d].position.z + 4
               /\ ents'[d].position.y.n = ents[d].position.y.n + 1
               /\ ents'[d].position.x = ents[d].position.x]_vars

\* C14 witness: after a direct add and an enter-vr the default camera is
\* one step below (0, 3.6, 8), at the spawn height, while in VR.
C14_Witness ==
  /\ lastCall.op = "enter-vr"
  /\ inVR
  /\ \E d \in DefaultEls(children, ents) :
       ents[d].position.z = 4 /\ ents[d].position.y.n = 1

\* The step runs addDefaultOffset or removeDefaultOffset, directly or
\* through the exit-vr / enter-vr listeners.
AnyOffsetStep ==
  lastCall'.op \in {"addDefaultOffset", "removeDefaultOffset", "enter-vr",
                    "exit-vr"}

\* C15: an offset operation changes nothing but the position of the entity
\* carrying the default-camera marker: every other entity, every flag,
\* activeCameraEl, sceneEl.camera, the scene's children, the listeners and
\* the events stay as they were; with no default camera in the scene the
\* entities stay as they were altogether.
C15_OffsetTouchesOnlyDefaultPosition ==
  [][AnyOffsetStep
       => /\ UNCHANGED <<activeCameraEl, sceneCamera, children, listeners,
                         events, switches, timerPending>>
          /\ DOMAIN ents' = DOMAIN ents
          /\ \A e \in DOMAIN ents :
               IF e \in DefaultEls(children, ents)
               THEN ents'[e] = [ents[e] EXCEPT !.position = ents'[e].position]
               ELSE ents'[e] = ents[e]
          /\ DefaultEls(children, ents) = {} => ents' = ents]_vars

\* C15 witness: an offset call made after the default camera was removed,
\* with an author camera active.
C15_Witness ==
  /\ lastCall.op \in {"addDefaultOffset", "removeDefaultOffset"}
  /\ DefaultRemoved
  /\ activeCameraEl \in CameraEls(children, ents)

C17_DisableThrowsWithoutCameras ==
  [][lastCall'.op = "disableActiveCamera"
       => /\ lastCall'.threw = (CameraEls(children, ents) = {})
          /\ CameraEls(children, ents) = {} => UNCHANGED progState]_vars

\* C17 witness: the call threw in a scene without cameras.
C17_Witness ==
  /\ lastCall.op = "disableActiveCamera"
  /\ lastCall.threw
  /\ CameraEls(children, ents) = {}

\* C18: activeCameraEl is null initially; a step changes it only when it is
\* a setActiveCamera call whose target has a realized camera and is not the
\* current activeCameraEl, and then to that target; once set it is never
\* null again.
C18_ActiveCameraElOnlyBySwitch ==
  /\ activeCameraEl = Null
  /\ [][/\ activeCameraEl' # activeCameraEl
             => /\ lastCall'.op = "setActiveCamera"
                /\ getObject3D(lastCall'.target, ents) # Null
                /\ lastCall'.target # activeCameraEl
                /\ activeCameraEl' = lastCall'.target
        /\ activeCameraEl # Null => activeCameraEl' # Null]_vars

\* C18 witness: activeCameraEl is still the camera set by the one switch made
\* although the check, a disableActiveCamera and offset calls came later.
C18_Witness ==
  /\ activeCameraEl # Null
  /\ events.count["camera-set-active"] = 1
  /\ ~timerPending
  /\ lastCall.op = "removeDefaultOffset"
  /\ \E e \in ActiveEls(children, ents) : e # activeCameraEl

\* C19: after a guard-passing setActiveCamera call the target is playing and
\* keeps its camera.active flag, every other camera-bearing entity that was
\* in the scene when the call started is inactive and paused, and the
\* previously active entity is inactive whether the query matched it or not.
C19_OthersDisabledTargetPlayed ==
  [][SwitchStep
       => /\ ents'[lastCall'.target].playing
          /\ ents'[lastCall'.target].active = ents[lastCall'.target].active
          /\ \A e \in CameraEls(children, ents) \ {lastCall'.target} :
               ~ents'[e].active /\ ~ents'[e].playing
          /\ activeCameraEl # Null => ~ents'[activeCameraEl].active]_vars

\* C19 witness: the third switch, made while the previously active entity
\* (the default camera, still playing) was already out of the scene.
C19_Witness ==
  /\ Switched
  /\ events.count["camera-set-active"] = 3
  /\ ~ents[lastCall.target].marker
  /\ \E e \in DOMAIN ents :
       /\ ents[e].marker
       /\ e \notin Range(children)
       /\ ents[e].playing
       /\ ~ents[e].active

\* C20 (as stated): a non-null activeCameraEl is an entity of the scene.
C20_ActiveCameraElInScene ==
  activeCameraEl # Null => activeCameraEl \in Range(children)

====
